---- MODULE Spec2Model ----
(***************************************************************************)
(* A model of the Paddos safety map server.                                *)
(*                                                                         *)
(*   src/safety_engine.py  calculate_safety_score and its helpers          *)
(*   src/app.py            api_safety, the socket handlers, the session    *)
(*                         table and the monitor_location thread           *)
(*                                                                         *)
(* Three state machines share the module:                                  *)
(*   ScoreSpec  one call of calculate_safety_score on drawn arguments and  *)
(*              fetch outcomes;                                            *)
(*   ApiSpec    one POST /api/safety request;                              *)
(*   Spec       the socket handlers and the monitor threads, interleaved   *)
(*              at the granularity of the code's `with session_lock:`      *)
(*              blocks (FairSpec adds the scheduler's fairness).           *)
(*                                                                         *)
(* Numbers.  Python floats are modelled by exact integers with a fixed     *)
(* scale: scores and confidences in tenths ("x10"), distances in           *)
(* hundredths of a km (get_nearby_places rounds them to 2 decimals),       *)
(* country multipliers in hundredths, the weighted sum in thousandths.     *)
(***************************************************************************)
EXTENDS Integers, Sequences, FiniteSets, TLC

VARIABLES
    \* ---- src/app.py: the socket layer ----
    conn,             \* per sid: "new" | "connected" | "disconnected"
    active_sessions,  \* the dict active_sessions: sid -> session record
    inv,              \* the start_monitoring invocations, in arrival order:
                      \*   each is a handler and the thread it spawns
    outbox,           \* per sid: the last event emitted to that client
    push_faults,      \* how many socketio.emit calls of a monitor have failed
    \* ---- one call of calculate_safety_score ----
    call,             \* the arguments and the environment of the call
    result,           \* what the call produced
    \* ---- one POST /api/safety ----
    request,          \* the request body and the environment
    response,         \* the HTTP answer
    phase             \* "call" before the operation under test ran, "done" after

vars == <<conn, active_sessions, inv, outbox, push_faults,
          call, result, request, response, phase>>

-----------------------------------------------------------------------------
(* Python values that reach the code from JSON.  A value is a record       *)
(* [kind, val]: a number carries its value, a string its length, None 0.   *)

Num(n) == [kind |-> "number", val |-> n]
Str(len) == [kind |-> "string", val |-> len]
None == [kind |-> "none", val |-> 0]

\* Python truthiness, as used by `not (lat and lon)`.
Truthy(v) == v.val # 0

\* '{lat:.4f}' and numeric comparison work on numbers only.
IsNumber(v) == v.kind = "number"

\* A country_code argument that is not a string (None, a number, ...).
NotAString == "<not-a-str>"

-----------------------------------------------------------------------------
(* src/safety_engine.py                                                    *)

\* COUNTRY_BASELINES, in hundredths.
COUNTRY_BASELINES ==
    ("NO" :> 118) @@ ("SE" :> 116) @@ ("DK" :> 116) @@ ("FI" :> 117)
    @@ ("CH" :> 115) @@ ("CA" :> 111) @@ ("DE" :> 110) @@ ("AU" :> 109)
    @@ ("GB" :> 108) @@ ("US" :> 104) @@ ("IN" :> 88) @@ ("BR" :> 89)
    @@ ("CN" :> 94) @@ ("MX" :> 84) @@ ("DEFAULT" :> 100)

\* WEIGHTS, in hundredths.
WEIGHTS ==
    [temporal_risk |-> 28, emergency_proximity |-> 27,
     population_density |-> 25, infrastructure |-> 20]

\* str.upper() on the country codes the model draws.
Upper(s) ==
    CASE s = "no" -> "NO"
      [] s = "gb" -> "GB"
      [] s = "default" -> "DEFAULT"
      [] OTHER -> s

\* COUNTRY_BASELINES.get(country_code.upper(), COUNTRY_BASELINES['DEFAULT'])
multiplier(country_code) ==
    IF Upper(country_code) \in DOMAIN COUNTRY_BASELINES
    THEN COUNTRY_BASELINES[Upper(country_code)]
    ELSE COUNTRY_BASELINES["DEFAULT"]

Min(a, b) == IF a <= b THEN a ELSE b
Max(a, b) == IF a >= b THEN a ELSE b

\* round(n/d, 1) in tenths, for a value whose float is exact (a tie is a
\* true tie and Python rounds it to the even digit).
RoundHalfEven10(n, d) ==
    LET q == (10 * n) \div d
        r == (10 * n) % d
    IN  IF 2 * r < d THEN q
        ELSE IF 2 * r > d THEN q + 1
        ELSE IF q % 2 = 0 THEN q ELSE q + 1

\* round(n/d, 1) in tenths, for a computed float: at a decimal tie the
\* binary float lies just below or just above it, `up` says which.
Round10(n, d, up) ==
    LET q == (10 * n) \div d
        r == (10 * n) % d
    IN  IF 2 * r < d THEN q
        ELSE IF 2 * r > d THEN q + 1
        ELSE IF up THEN q + 1 ELSE q

\* The time band of lines 112-118.
time_score(hour) ==
    IF 9 <= hour /\ hour <= 18 THEN 88
    ELSE IF (7 <= hour /\ hour < 9) \/ (18 < hour /\ hour <= 20) THEN 62
    ELSE 25

period(hour) ==
    IF 9 <= hour /\ hour <= 18 THEN "Low Risk"
    ELSE IF (7 <= hour /\ hour < 9) \/ (18 < hour /\ hour <= 20) THEN "Moderate Risk"
    ELSE "High Risk"

\* min(p['distance'] for p in emergency), emergency = hospitals + police.
\* Both lists come sorted ascending from get_nearby_places.
SeqMin(s) == CHOOSE m \in {s[i] : i \in 1..Len(s)} : \A i \in 1..Len(s) : m <= s[i]

emerg_score(emergency) ==
    IF emergency # <<>> THEN
        LET min_dist == SeqMin(emergency)
        IN  IF min_dist <= 80 THEN 96
            ELSE IF min_dist <= 150 THEN 85
            ELSE IF min_dist <= 250 THEN 70
            ELSE IF min_dist <= 400 THEN 50
            ELSE 30
    ELSE 22

\* Population density, in tenths (the night discount is * 0.7).
pop_score10(act_count, hour) ==
    LET base == IF act_count >= 60 THEN 92
                ELSE IF act_count >= 40 THEN 82
                ELSE IF act_count >= 25 THEN 68
                ELSE IF act_count >= 12 THEN 50
                ELSE 35
    IN  IF hour < 6 \/ hour > 22 THEN base * 7 ELSE base * 10

infra_score(infra_count, hour) ==
    IF 6 <= hour /\ hour <= 19
    THEN (IF infra_count >= 20 THEN 80 ELSE 65)
    ELSE IF infra_count >= 20 THEN 85
         ELSE IF infra_count >= 10 THEN 60
         ELSE 30

\* raw_score, in thousandths.
raw_score1000(t, e, p10, i) ==
    t * WEIGHTS.temporal_risk * 10 + e * WEIGHTS.emergency_proximity * 10
    + p10 * WEIGHTS.population_density + i * WEIGHTS.infrastructure * 10

\* final_score = min(max(raw_score * multiplier, 0), 100), in 1/100000.
final_score(raw1000, mult100) == Min(Max(raw1000 * mult100, 0), 100 * 100000)

\* The rating bands of lines 232-239, on the unrounded final_score.
rating_of(final) ==
    IF final >= 75 * 100000 THEN <<"SAFE", "#4CAF50">>
    ELSE IF final >= 55 * 100000 THEN <<"MODERATE", "#FFC107">>
    ELSE IF final >= 35 * 100000 THEN <<"CAUTION", "#FF9800">>
    ELSE <<"HIGH RISK", "#F44336">>

\* The gate with the police flag forgotten.
services_available_hospital_only(env) ==
    env.hospital.success /\ env.activity.success

\* services_available = (hosp_success or police_success) and activity_success

services_available(env) ==
    (env.hospital.success \/ env.police.success) /\ env.activity.success

Count(b) == IF b THEN 1 ELSE 0

\* The confidence taken over all six fetches.
confidence10_of_six(env) ==
    RoundHalfEven10(
        (Count(env.hospital.success) + Count(env.police.success)
         + Count(env.activity.success) + Count(env.infrastructure.success)
         + Count(env.bus_stop.success) + Count(env.train.success)) * 85, 6)

\* confidence = round(sum([hosp, police, activity, infra]) / 4 * 85, 1), in
\* tenths.
confidence10(env) ==
    RoundHalfEven10(
        (Count(env.hospital.success) + Count(env.police.success)
         + Count(env.activity.success) + Count(env.infrastructure.success)) * 85, 4)

\* The list `unavailable` of lines 248-254.
unavailable(env) ==
    (IF ~env.hospital.success /\ ~env.police.success
     THEN <<"emergency_services">> ELSE <<>>)
    \o (IF ~env.activity.success THEN <<"activity_data">> ELSE <<>>)
    \o (IF ~env.infrastructure.success THEN <<"infrastructure">> ELSE <<>>)

First(s) == IF s # <<>> THEN s[1] ELSE -1   \* s[0] if s else None

Report(score10, rating, color, conf10, b1, b2, b3, b4, per, scol, unav, msg, nh, np) ==
    [score10 |-> score10, rating |-> rating, color |-> color,
     confidence10 |-> conf10,
     breakdown10 |-> [temporal_risk |-> b1, emergency_proximity |-> b2,
                      population_density |-> b3, infrastructure |-> b4],
     time_period |-> per,
     status_color |-> scol, unavailable |-> unav, message |-> msg,
     nearest |-> [hospital |-> nh, police |-> np]]

\* The report of lines 135-171.
degraded_report(env) ==
    Report(0, "SERVICE UNAVAILABLE", "#999999", 0, 0, 0, 0, 0,
           period(env.hour), "#f44336",
           <<"emergency_services", "activity_data">>, "coverage", -1, -1)

\* The report of lines 302-324.
error_report ==
    Report(0, "ERROR", "#999999", 0, 0, 0, 0, 0, "", "#f44336",
           <<"all">>, "error", -1, -1)

\* The report of lines 259-295.
scored_report(country_code, env, up) ==
    LET hour == env.hour
        t == time_score(hour)
        emergency == env.hospital.places \o env.police.places
        e == emerg_score(emergency)
        p10 == pop_score10(env.activity.count, hour)
        infra_count == env.infrastructure.count + env.bus_stop.count + env.train.count
        i == infra_score(infra_count, hour)
        final == final_score(raw_score1000(t, e, p10, i), multiplier(country_code))
        rc == rating_of(final)
        unav == unavailable(env)
    IN  Report(Round10(final, 100000, up), rc[1], rc[2], confidence10(env),
               t * 10, e * 10, p10, i * 10, period(hour),
               IF unav = <<>> THEN "#4CAF50" ELSE "#FF9800",
               unav, "none",
               First(env.hospital.places), First(env.police.places))

NoReport ==
    Report(0, "", "", 0, 0, 0, 0, 0, "", "", <<>>, "", -1, -1)

Returned(r) == [raised |-> FALSE, report |-> r]
Raised == [raised |-> TRUE, report |-> NoReport]

\* calculate_safety_score(lat, lon, country_code) in the environment env
\* (the hour and the six fetch outcomes).  The print of line 107 formats
\* lat and lon with ':.4f' before the try block is entered.
calculate_safety_score(lat, lon, country_code, env, up) ==
    IF ~(IsNumber(lat) /\ IsNumber(lon)) THEN Raised
    ELSE IF ~services_available(env) THEN Returned(degraded_report(env))
    ELSE IF country_code = NotAString THEN Returned(error_report)
    ELSE Returned(scored_report(country_code, env, up))

-----------------------------------------------------------------------------
(* Bounds of the socket model.                                             *)

NumSids == 2         \* client connections (request.sid values)
MaxStarts == 2       \* start_monitoring events received in a run
MaxUpdates == 2      \* cap on a session's update_count
MaxPushFaults == 1   \* socketio.emit calls of a monitor that fail in a run

Sids == 1..NumSids

-----------------------------------------------------------------------------
(* The environment of one call of calculate_safety_score: the hour of      *)
(* datetime.now() and what get_nearby_places returns for the six place     *)
(* types.  A failed fetch returns ([], False); a successful one a list     *)
(* sorted by distance.  Hospital and police lists are kept as their        *)
(* distances; of the other four only len() is used.                        *)

Fetched(places) == [success |-> TRUE, places |-> places]
FetchFailed == [success |-> FALSE, places |-> <<>>]
Counted(n) == [success |-> TRUE, count |-> n]
CountFailed == [success |-> FALSE, count |-> 0]

Env(hour, hospital, police, bus_stop, train, activity, infrastructure) ==
    [hour |-> hour, hospital |-> hospital, police |-> police,
     bus_stop |-> bus_stop, train |-> train, activity |-> activity,
     infrastructure |-> infrastructure]

Hours == 0..23

CountryCodes ==
    {"NO", "SE", "DK", "FI", "CH", "CA", "DE", "AU", "GB", "US",
     "IN", "BR", "CN", "MX", "DEFAULT", "XX", "gb"}

HospitalResults ==
    {FetchFailed, Fetched(<<>>), Fetched(<<80>>), Fetched(<<250>>),
     Fetched(<<400, 401>>)}
PoliceResults == {FetchFailed, Fetched(<<81>>), Fetched(<<401>>)}
ActivityCounts == {11, 12, 24, 25, 39, 40, 59, 60}
ActivityResults == {CountFailed} \cup {Counted(n) : n \in ActivityCounts}
BusStopResults == {CountFailed, Counted(1)}
TrainResults == {CountFailed, Counted(0)}
InfrastructureCounts == {9, 19}
InfrastructureResults == {CountFailed} \cup {Counted(n) : n \in InfrastructureCounts}

\* A call with arguments of the declared types (lat: float, lon: float,
\* country_code: str).
TypedCall(cc, env) ==
    [lat |-> Num(12), lon |-> Num(77), country_code |-> cc, env |-> env]

\* Arguments of any JSON type, as app.py passes them on.
ArgValues == {Num(12), Num(0), Str(3), None}

NoCall ==
    [lat |-> None, lon |-> None, country_code |-> "",
     env |-> Env(0, FetchFailed, FetchFailed, CountFailed, CountFailed,
                 CountFailed, CountFailed)]
NoRequest == [body |-> "none", latitude |-> None, longitude |-> None,
              country_code |-> "", env |-> NoCall.env]
NoResponse == [status |-> 0, success |-> FALSE, calls |-> 0, data |-> NoReport]

SocketIdle ==
    /\ conn = [s \in Sids |-> "new"]
    /\ active_sessions = <<>>
    /\ inv = <<>>
    /\ outbox = [s \in Sids |-> "none"]
    /\ push_faults = 0

socket_vars == <<conn, active_sessions, inv, outbox, push_faults>>

-----------------------------------------------------------------------------
(* ScoreSpec: one call of calculate_safety_score.                          *)

\* Every hour and country with every outcome of the fetches that decide
\* the score.
ScoredCalls ==
    \E cc \in CountryCodes, h \in Hours, ho \in HospitalResults,
       po \in PoliceResults, ac \in ActivityCounts,
       inf \in InfrastructureCounts \cup {0} :
      call = TypedCall(cc, Env(h, ho, po, Counted(1), Counted(0),
                               Counted(ac), Counted(inf)))

\* Every hour with every combination of the six success flags.
FlagCalls ==
    \E cc \in {"IN", "gb"}, h \in Hours, ho \in HospitalResults,
       po \in PoliceResults, bu \in BusStopResults, tr \in TrainResults,
       ac \in ActivityResults, inf \in InfrastructureResults :
      call = TypedCall(cc, Env(h, ho, po, bu, tr, ac, inf))

\* Arguments of every type.
UntypedCalls ==
    \E la \in ArgValues, lo \in ArgValues, cc \in {"IN", NotAString},
       h \in {3, 12}, ho \in {FetchFailed, Fetched(<<80>>)},
       po \in {FetchFailed, Fetched(<<>>)}, ac \in {CountFailed, Counted(60)} :
      call = [lat |-> la, lon |-> lo, country_code |-> cc,
              env |-> Env(h, ho, po, CountFailed, Counted(0), ac, Counted(20))]

ScoreInit ==
    /\ SocketIdle
    /\ \/ ScoredCalls
       \/ FlagCalls
       \/ UntypedCalls
    /\ result = Returned(NoReport)
    /\ request = NoRequest
    /\ response = NoResponse
    /\ phase = "call"

\* The call runs to its end: it returns a report or raises.
CallScore ==
    /\ phase = "call"
    /\ \E up \in BOOLEAN :
         result' = calculate_safety_score(call.lat, call.lon,
                                          call.country_code, call.env, up)
    /\ phase' = "done"
    /\ UNCHANGED <<socket_vars, call, request, response>>

ScoreNext == CallScore

ScoreSpec == ScoreInit /\ [][ScoreNext]_vars

-----------------------------------------------------------------------------
(* ApiSpec: one POST /api/safety (src/app.py, api_safety).                 *)

\* A key the JSON body does not hold: data.get('country_code', 'XX').
Missing == "<missing>"

Resp(status, calls, data) ==
    [status |-> status, success |-> status = 200, calls |-> calls, data |-> data]

\* api_safety on the request req.  `calls` counts the calls of
\* calculate_safety_score.  Any exception ends in the handler's except
\* branch, a 500: request.json that is no dict, or a comparison of a string
\* with a number in the range check (which short-circuits left to right).
api_safety(req, up) ==
    IF req.body = "none" THEN Resp(500, 0, NoReport)
    ELSE
      LET lat == req.latitude
          lon == req.longitude
          country_code == IF req.country_code = Missing THEN "XX"
                          ELSE req.country_code
      IN  IF ~(Truthy(lat) /\ Truthy(lon)) THEN Resp(400, 0, NoReport)
          ELSE IF ~IsNumber(lat) THEN Resp(500, 0, NoReport)
          ELSE IF ~(-90 <= lat.val /\ lat.val <= 90) THEN Resp(400, 0, NoReport)
          ELSE IF ~IsNumber(lon) THEN Resp(500, 0, NoReport)
          ELSE IF ~(-180 <= lon.val /\ lon.val <= 180) THEN Resp(400, 0, NoReport)
          ELSE LET r == calculate_safety_score(lat, lon, country_code, req.env, up)
               IN  IF r.raised THEN Resp(500, 1, NoReport)
                   ELSE Resp(200, 1, r.report)

Latitudes ==
    {None, Str(0), Str(3), Num(-91), Num(-90), Num(0), Num(45), Num(90), Num(91)}
Longitudes ==
    {None, Str(3), Num(-181), Num(-180), Num(0), Num(77), Num(180), Num(181)}

ApiEnv(h, ho, ac) ==
    Env(h, ho, Fetched(<<81>>), Counted(1), Counted(0), ac, Counted(19))

Request(b, la, lo, cc, e) ==
    [body |-> b, latitude |-> la, longitude |-> lo, country_code |-> cc,
     env |-> e]

ApiInit ==
    /\ SocketIdle
    /\ call = NoCall
    /\ result = Returned(NoReport)
    /\ \E b \in {"json", "none"}, la \in Latitudes, lo \in Longitudes,
          cc \in {Missing, "IN", NotAString}, h \in {3, 12},
          ho \in {FetchFailed, Fetched(<<80>>)},
          ac \in {CountFailed, Counted(60)} :
         request = Request(b, la, lo, cc, ApiEnv(h, ho, ac))
    /\ response = NoResponse
    /\ phase = "call"

PostSafety ==
    /\ phase = "call"
    /\ \E up \in BOOLEAN : response' = api_safety(request, up)
    /\ phase' = "done"
    /\ UNCHANGED <<socket_vars, call, result, request>>

ApiNext == PostSafety

ApiSpec == ApiInit /\ [][ApiNext]_vars

-----------------------------------------------------------------------------
(* Spec: the socket handlers and the monitor threads (src/app.py).         *)
(*                                                                         *)
(* Each `with session_lock:` block is one atomic step.  A start_monitoring *)
(* handler, which the server runs in a thread of its own, takes three      *)
(* steps: it validates the event data, inserts the session record under    *)
(* the lock, and starts the monitor thread.  The entry inv[i] is the i-th  *)
(* accepted start_monitoring: its handler (hpc) and the thread it spawns   *)
(* (tpc), with the arguments both hold.                                    *)
(*   hpc: "insert" -> "spawn" -> "done"                                    *)
(*   tpc: "unborn" -> "check" -> "score" -> "update" -> "emit"             *)
(*        -> "sleep30" | "sleep5" -> (check) ... -> "exited"               *)
(* mark is a history field: "stopped" once stop_monitoring removed the     *)
(* session while the thread slept its 30 s, "checked" after the thread's   *)
(* next active-check, "emitted" if it pushed an update after that check.   *)

Session(lat, lon, country_code) ==
    [active |-> TRUE, latitude |-> lat, longitude |-> lon,
     country_code |-> country_code, update_count |-> 0]

Invocation(sid, lat, lon, country_code) ==
    [sid |-> sid, lat |-> lat, lon |-> lon, country_code |-> country_code,
     hpc |-> "insert", tpc |-> "unborn", result |-> NoReport, mark |-> "none"]

\* del active_sessions[sid]
Remove(sessions, sid) == [s \in DOMAIN sessions \ {sid} |-> sessions[s]]

\* active_sessions[sid] = record
Put(sessions, sid, rec) ==
    [s \in DOMAIN sessions \cup {sid} |-> IF s = sid THEN rec ELSE sessions[s]]

Live(i) == inv[i].tpc \notin {"unborn", "exited"}

Threads == 1..Len(inv)

\* What the fetches of a monitor's scoring call may return.
MonitorEnvs ==
    {Env(12, Fetched(<<80>>), Fetched(<<81>>), Counted(1), Counted(0),
         Counted(60), Counted(19)),
     Env(12, FetchFailed, FetchFailed, CountFailed, CountFailed,
         CountFailed, CountFailed)}

\* The event data of start_monitoring.
StartLatitudes == {None, Num(0), Num(12), Str(3)}
StartLongitudes == {Num(0), Num(77)}

Init ==
    /\ SocketIdle
    /\ call = NoCall
    /\ result = Returned(NoReport)
    /\ request = NoRequest
    /\ response = NoResponse
    /\ phase = "call"

other_vars == <<call, result, request, response, phase>>

\* handle_connect
handle_connect(sid) ==
    /\ conn[sid] = "new"
    /\ conn' = [conn EXCEPT ![sid] = "connected"]
    /\ outbox' = [outbox EXCEPT ![sid] = "connected"]
    /\ UNCHANGED <<active_sessions, inv, push_faults, other_vars>>

\* handle_disconnect
handle_disconnect(sid) ==
    /\ conn[sid] = "connected"
    /\ conn' = [conn EXCEPT ![sid] = "disconnected"]
    /\ active_sessions' = IF sid \in DOMAIN active_sessions
                          THEN Remove(active_sessions, sid)
                          ELSE active_sessions
    /\ UNCHANGED <<inv, outbox, push_faults, other_vars>>

\* handle_start_monitoring, lines 109-116: the validation.
start_validate(sid, lat, lon, country_code) ==
    /\ conn[sid] = "connected"
    /\ Len(inv) < MaxStarts
    /\ IF ~(Truthy(lat) /\ Truthy(lon))
       THEN /\ outbox' = [outbox EXCEPT ![sid] = "error"]
            /\ UNCHANGED inv
       ELSE /\ inv' = Append(inv, Invocation(sid, lat, lon, country_code))
            /\ UNCHANGED outbox
    /\ UNCHANGED <<conn, active_sessions, push_faults, other_vars>>

\* handle_start_monitoring, lines 118-122: the insertion under the lock.
start_insert(i) ==
    /\ inv[i].hpc = "insert"
    /\ active_sessions' = Put(active_sessions, inv[i].sid,
                              Session(inv[i].lat, inv[i].lon, inv[i].country_code))
    /\ inv' = [inv EXCEPT ![i].hpc = "spawn"]
    /\ UNCHANGED <<conn, outbox, push_faults, other_vars>>

\* handle_start_monitoring, lines 124-130: thread.start() and the emit.
start_spawn(i) ==
    /\ inv[i].hpc = "spawn"
    /\ inv' = [inv EXCEPT ![i].hpc = "done", ![i].tpc = "check"]
    /\ outbox' = [outbox EXCEPT ![inv[i].sid] = "monitoring_started"]
    /\ UNCHANGED <<conn, active_sessions, push_faults, other_vars>>

\* handle_stop_monitoring; without a record for sid it changes nothing.
handle_stop_monitoring(sid) ==
    /\ conn[sid] = "connected"
    /\ sid \in DOMAIN active_sessions
    /\ active_sessions' = Remove(active_sessions, sid)
    /\ outbox' = [outbox EXCEPT ![sid] = "monitoring_stopped"]
    /\ inv' = [i \in Threads |->
                 IF inv[i].sid = sid /\ inv[i].tpc = "sleep30" /\ inv[i].mark = "none"
                 THEN [inv[i] EXCEPT !.mark = "stopped"]
                 ELSE inv[i]]
    /\ UNCHANGED <<conn, push_faults, other_vars>>

\* monitor_location, lines 147-149: the end of a sleep (or the thread's
\* start) and the active-check under the lock.
monitor_check(i) ==
    /\ inv[i].tpc \in {"check", "sleep30", "sleep5"}
    /\ LET sid == inv[i].sid
           stop == sid \notin DOMAIN active_sessions
                   \/ ~active_sessions[sid].active
       IN  inv' = [inv EXCEPT
                     ![i].tpc = IF stop THEN "exited" ELSE "score",
                     ![i].mark = IF @ = "stopped" THEN "checked" ELSE @]
    /\ UNCHANGED <<conn, active_sessions, outbox, push_faults, other_vars>>

\* monitor_location, line 152: the scoring call; an exception leads to the
\* except branch and its 5 s sleep.
monitor_score(i) ==
    /\ inv[i].tpc = "score"
    /\ \E env \in MonitorEnvs, up \in BOOLEAN :
         LET r == calculate_safety_score(inv[i].lat, inv[i].lon,
                                         inv[i].country_code, env, up)
         IN  inv' = IF r.raised
                    THEN [inv EXCEPT ![i].tpc = "sleep5"]
                    ELSE [inv EXCEPT ![i].tpc = "update", ![i].result = r.report]
    /\ UNCHANGED <<conn, active_sessions, outbox, push_faults, other_vars>>

\* monitor_location, lines 154-156: update_count += 1 under the lock.  The
\* model stops counting at MaxUpdates: a thread waits there.
monitor_update(i) ==
    /\ inv[i].tpc = "update"
    /\ LET sid == inv[i].sid
       IN  IF sid \in DOMAIN active_sessions
           THEN /\ active_sessions[sid].update_count < MaxUpdates
                /\ active_sessions' =
                     [active_sessions EXCEPT ![sid].update_count = @ + 1]
           ELSE UNCHANGED active_sessions
    /\ inv' = [inv EXCEPT ![i].tpc = "emit"]
    /\ UNCHANGED <<conn, outbox, push_faults, other_vars>>

\* monitor_location, lines 158-159: the push, then the 30 s sleep.
monitor_emit(i) ==
    /\ inv[i].tpc = "emit"
    /\ outbox' = [outbox EXCEPT ![inv[i].sid] = "safety_update"]
    /\ inv' = [inv EXCEPT
                 ![i].tpc = "sleep30", ![i].result = NoReport,
                 ![i].mark = IF @ = "checked" THEN "emitted" ELSE @]
    /\ UNCHANGED <<conn, active_sessions, push_faults, other_vars>>

\* monitor_location, lines 158 and 161-163: socketio.emit raises.
monitor_emit_fault(i) ==
    /\ inv[i].tpc = "emit"
    /\ push_faults < MaxPushFaults
    /\ push_faults' = push_faults + 1
    /\ inv' = [inv EXCEPT ![i].tpc = "sleep5", ![i].result = NoReport]
    /\ UNCHANGED <<conn, active_sessions, outbox, other_vars>>

monitor_location(i) ==
    \/ monitor_check(i)
    \/ monitor_score(i)
    \/ monitor_update(i)
    \/ monitor_emit(i)
    \/ monitor_emit_fault(i)

Next ==
    \/ \E sid \in Sids : handle_connect(sid)
    \/ \E sid \in Sids : handle_disconnect(sid)
    \/ \E sid \in Sids, lat \in StartLatitudes, lon \in StartLongitudes,
          cc \in {"IN"} :
         start_validate(sid, lat, lon, cc)
    \/ \E i \in Threads : start_insert(i)
    \/ \E i \in Threads : start_spawn(i)
    \/ \E sid \in Sids : handle_stop_monitoring(sid)
    \/ \E i \in Threads : monitor_location(i)

Spec == Init /\ [][Next]_vars

\* The scheduler runs every started handler and thread, and sleeps end.
FairSpec ==
    /\ Spec
    /\ \A i \in 1..MaxStarts :
         /\ WF_vars(i \in Threads /\ (start_insert(i) \/ start_spawn(i)))
         /\ WF_vars(i \in Threads /\ monitor_location(i))

-----------------------------------------------------------------------------
(* Properties.                                                             *)

Range(seq) == {seq[i] : i \in 1..Len(seq)}

Abs(x) == IF x < 0 THEN -x ELSE x

\* The call under ScoreSpec has arguments of the declared types.
TypedArgs ==
    IsNumber(call.lat) /\ IsNumber(call.lon) /\ call.country_code # NotAString

Scored == phase = "done" /\ ~result.raised

\* The success flags of the call, read off the fetch outcomes.
hosp_success == call.env.hospital.success
police_success == call.env.police.success
bus_success == call.env.bus_stop.success
train_success == call.env.train.success
activity_success == call.env.activity.success
infra_success == call.env.infrastructure.success

GatePasses == (hosp_success \/ police_success) /\ activity_success

\* The band that holds a score given in tenths.
BandOf(score10) ==
    IF score10 >= 750 THEN "SAFE"
    ELSE IF score10 >= 550 THEN "MODERATE"
    ELSE IF score10 >= 350 THEN "CAUTION"
    ELSE "HIGH RISK"

ScoreRatings == {"SAFE", "MODERATE", "CAUTION", "HIGH RISK"}

IsDegraded(r) ==
    /\ r.score10 = 0
    /\ r.rating = "SERVICE UNAVAILABLE"
    /\ r.color = "#999999"
    /\ r.confidence10 = 0
    /\ r.breakdown10 = [temporal_risk |-> 0, emergency_proximity |-> 0,
                        population_density |-> 0, infrastructure |-> 0]

\* C4 (as claimed): every call of calculate_safety_score returns a report and
\* never raises; a call whose arguments make it fail (a latitude or longitude
\* that is no number) returns the ERROR report: score 0, confidence 0,
\* unavailable = ["all"].
C4_NeverRaises ==
    phase = "done" =>
        /\ ~result.raised
        /\ (~(IsNumber(call.lat) /\ IsNumber(call.lon)) =>
               /\ result.report.rating = "ERROR"
               /\ result.report.score10 = 0
               /\ result.report.confidence10 = 0
               /\ result.report.unavailable = <<"all">>)

\* C5 (as claimed): for every hour, every country code and every fetch
\* outcome that passes the availability gate, the reported score lies in
\* [0, 100] and the rating is the band that holds the reported score.
C5_RatingIsBandOfReportedScore ==
    (Scored /\ TypedArgs /\ GatePasses) =>
        /\ 0 <= result.report.score10
        /\ result.report.score10 <= 1000
        /\ result.report.rating = BandOf(result.report.score10)

\* C6: for a call with arguments of the declared types and every combination
\* of the six success flags, the report is the degraded one (score 0,
\* SERVICE UNAVAILABLE, #999999, confidence 0, breakdown all 0) exactly when
\* NOT((hospital OR police) AND activity); the bus_stop, train and
\* infrastructure flags play no part; when the gate passes the rating is one
\* of SAFE, MODERATE, CAUTION, HIGH RISK.
C6_DegradedIffGateFails ==
    (phase = "done" /\ TypedArgs) =>
        /\ ~result.raised
        /\ IsDegraded(result.report)
             <=> ~((hosp_success \/ police_success) /\ activity_success)
        /\ result.report.rating = "SERVICE UNAVAILABLE"
             <=> ~((hosp_success \/ police_success) /\ activity_success)
        /\ ((hosp_success \/ police_success) /\ activity_success)
             => result.report.rating \in ScoreRatings

\* C6 happens: only the police and activity fetches succeeded, and the call
\* returned a scored report.
C6_Witness ==
    /\ phase = "done"
    /\ TypedArgs
    /\ ~hosp_success /\ police_success /\ activity_success
    /\ ~bus_success /\ ~train_success /\ ~infra_success
    /\ result.report.rating \in ScoreRatings

TrackedCount ==
    Count(hosp_success) + Count(police_success) + Count(activity_success)
    + Count(infra_success)

\* c (in tenths) is 85 * n / 4 rounded to one decimal: 10 * 85 * n / 4 lies
\* within half a tenth of c.
IsRounded85(c, n) == Abs(4 * c - 850 * n) <= 2

\* C8 (as claimed): for each of the 16 combinations of the hospital, police,
\* activity and infrastructure flags, the confidence of the report is
\* 85 * (number of true flags) / 4 rounded to one decimal, within [0, 85].
C8_ConfidenceIsShareOfFour ==
    (Scored /\ TypedArgs) =>
        /\ IsRounded85(result.report.confidence10, TrackedCount)
        /\ 0 <= result.report.confidence10
        /\ result.report.confidence10 <= 850

\* C8 (amended): the confidence of every report returned is within [0, 85];
\* it is 85 * (number of true flags among hospital, police, activity,
\* infrastructure) / 4 rounded to one decimal when the availability gate
\* passes and the report is a scored one, and 0 in the degraded report (the
\* gate fails) and in the ERROR report.
C8_ConfidenceWhenGatePasses ==
    Scored =>
        /\ 0 <= result.report.confidence10
        /\ result.report.confidence10 <= 850
        /\ IF GatePasses /\ call.country_code # NotAString
           THEN IsRounded85(result.report.confidence10, TrackedCount)
           ELSE result.report.confidence10 = 0

\* C8 happens: three of the four tracked fetches succeeded, the bus_stop
\* fetch did not, and the scored report carries confidence 63.8.
C8_Witness ==
    /\ Scored
    /\ TypedArgs
    /\ hosp_success /\ ~police_success /\ activity_success /\ infra_success
    /\ ~bus_success
    /\ result.report.rating \in ScoreRatings
    /\ result.report.confidence10 = 638

\* C9 (as claimed): in the degraded report, unavailable holds
\* 'emergency_services' exactly when the hospital and the police fetch both
\* failed, and 'activity_data' exactly when the activity fetch failed.
C9_UnavailableListsFailedSources ==
    (Scored /\ result.report.rating = "SERVICE UNAVAILABLE") =>
        /\ "emergency_services" \in Range(result.report.unavailable)
             <=> (~hosp_success /\ ~police_success)
        /\ "activity_data" \in Range(result.report.unavailable)
             <=> ~activity_success

InRange(v, lo, hi) == IsNumber(v) /\ lo <= v.val /\ v.val <= hi

\* C7 (as claimed): POST /api/safety answers 400 without scoring exactly when
\* the latitude is outside [-90, 90], the longitude outside [-180, 180] or one
\* of them missing; for every latitude in [-90, 90] and longitude in
\* [-180, 180], 0 included, it scores once and returns the report.
C7_RejectsExactlyOutOfRange ==
    (phase = "done" /\ request.body = "json") =>
        /\ (InRange(request.latitude, -90, 90)
            /\ InRange(request.longitude, -180, 180)) =>
               /\ response.status = 200
               /\ response.calls = 1
               /\ response.data.rating # ""
        /\ (\/ request.latitude = None
            \/ request.longitude = None
            \/ (IsNumber(request.latitude) /\ ~InRange(request.latitude, -90, 90))
            \/ (IsNumber(request.longitude) /\ ~InRange(request.longitude, -180, 180)
                /\ InRange(request.latitude, -90, 90))) =>
               /\ response.status = 400
               /\ response.calls = 0

\* C1 (as claimed): at most one monitor_location thread bound to a session
\* id is live (started and not yet out of its loop) at any time.
C1_AtMostOneLiveTask ==
    \A s \in Sids : Cardinality({i \in Threads : inv[i].sid = s /\ Live(i)}) <= 1

\* C2 (as claimed): a thread whose session was stopped during its 30 s sleep
\* leaves its loop at its next active-check and pushes no safety_update
\* after that check.
C2_StoppedTaskExitsAtNextCheck ==
    \A i \in Threads :
        /\ inv[i].mark = "checked" => inv[i].tpc = "exited"
        /\ inv[i].mark # "emitted"

\* C3 (as claimed): once a client's disconnect has been processed,
\* active_sessions holds no record for its session id.
C3_NoRecordAfterDisconnect ==
    \A s \in Sids : conn[s] = "disconnected" => s \notin DOMAIN active_sessions

SessionActive(sid) ==
    sid \in DOMAIN active_sessions /\ active_sessions[sid].active

\* A thread leaves its loop only at an active-check that finds its session
\* absent or inactive; no scoring or push step ends it.
C10_ExitsOnlyAtCheck ==
    [][\A i \in Threads :
         (inv[i].tpc # "exited" /\ inv'[i].tpc = "exited") =>
            /\ inv[i].tpc \in {"check", "sleep30", "sleep5"}
            /\ ~SessionActive(inv[i].sid)]_vars

\* While its session stays active (and below the model's cap on
\* update_count), a live thread pushes safety_update infinitely often.
C10_KeepsEmitting ==
    \A i \in 1..MaxStarts :
        <>[](/\ i \in Threads
             /\ Live(i)
             /\ SessionActive(inv[i].sid)
             /\ active_sessions[inv[i].sid].update_count < MaxUpdates)
        => []<><<i \in Threads /\ monitor_emit(i)>>_vars

\* C10 (as claimed): a monitor thread ends only at an active-check that finds
\* its session gone, a fault in an iteration never ends it, and while the
\* session stays active it keeps pushing safety_update.
C10_RunsUntilStopped == C10_ExitsOnlyAtCheck /\ C10_KeepsEmitting

====
